---- MODULE Spec2Model ----
(***************************************************************************)
(* contextr: the ignore-pattern engine (src/src/contextr/utils/            *)
(* ignore_utils.py, class IgnoreManager) as a state machine.               *)
(*                                                                         *)
(* Strings are TLA+ strings; Len, SubSeq, Head, Tail and \o act on them    *)
(* character by character.  A compiled regex is represented by its pattern *)
(* text (what re.compile was given); Search interprets that text.          *)
(* The filesystem has no symbolic links and path strings hold no newline.  *)
(***************************************************************************)
EXTENDS Integers, Sequences, FiniteSets, TLC

VARIABLES
    rules,          \* IgnoreManager._rules: sequence of [raw, is_negation, regex]
    ignore_file,    \* <base_dir>/.contextr/.ignore: sequence of lines, or NoFile
    cwd,            \* the process's current working directory
    system,         \* the host: what platform.system() reports
    project,        \* which project tree lies under base_dir
    last,           \* the last call made on the manager and what it returned
    added,          \* the add_pattern texts that built the list from empty, if so built
    files,          \* ContextManager.files: the set of absolute paths in the context
    state_file      \* <base_dir>/.contextr/state.json: the list it holds, or NoState

vars == <<rules, ignore_file, cwd, system, project, last, added, files, state_file>>

-----------------------------------------------------------------------------
(* Bounds of the model.                                                    *)

MaxRules == 3

-----------------------------------------------------------------------------
(* Python str primitives.                                                  *)

Char(s, i) == SubSeq(s, i, i)

StartsWith(s, p) == Len(s) >= Len(p) /\ SubSeq(s, 1, Len(p)) = p

EndsWith(s, p) == Len(s) >= Len(p) /\ SubSeq(s, Len(s) - Len(p) + 1, Len(s)) = p

Whitespace == {" ", "\t"}

RECURSIVE LStrip(_)
LStrip(s) ==
    IF Len(s) > 0 /\ Char(s, 1) \in Whitespace THEN LStrip(Tail(s)) ELSE s

RECURSIVE RStrip(_)
RStrip(s) ==
    IF Len(s) > 0 /\ Char(s, Len(s)) \in Whitespace
    THEN RStrip(SubSeq(s, 1, Len(s) - 1))
    ELSE s

\* str.strip()
Strip(s) == RStrip(LStrip(s))

\* str.replace(old, new): leftmost, non-overlapping occurrences
RECURSIVE Replace(_, _, _)
Replace(s, old, new) ==
    IF Len(s) < Len(old) \/ Len(s) = 0 THEN s
    ELSE IF StartsWith(s, old)
         THEN new \o Replace(SubSeq(s, Len(old) + 1, Len(s)), old, new)
         ELSE Char(s, 1) \o Replace(Tail(s), old, new)

\* The characters of the model in code-point order (what str.__lt__ compares).
CodePoints == "\t !#*./?ABKX\\_abcdefghijklmnopqrstuvwxyz"

RECURSIVE IndexOf(_, _, _)
IndexOf(c, s, i) ==
    IF i > Len(s) THEN 0
    ELSE IF Char(s, i) = c THEN i ELSE IndexOf(c, s, i + 1)

Ord(c) == IndexOf(c, CodePoints, 1)

\* a < b for Python strings
RECURSIVE StrLess(_, _)
StrLess(a, b) ==
    IF Len(b) = 0 THEN FALSE
    ELSE IF Len(a) = 0 THEN TRUE
    ELSE IF Char(a, 1) = Char(b, 1) THEN StrLess(Tail(a), Tail(b))
    ELSE Ord(Char(a, 1)) < Ord(Char(b, 1))

\* sorted(S) for a set of strings
RECURSIVE sorted(_)
sorted(S) ==
    IF S = {} THEN <<>>
    ELSE LET m == CHOOSE x \in S : \A y \in S \ {x} : StrLess(x, y)
         IN  <<m>> \o sorted(S \ {m})

-----------------------------------------------------------------------------
(* re.escape and the regex dialect _pattern_to_regex emits.                *)

\* re._special_chars_map (Python >= 3.7): the characters re.escape prefixes
ReSpecial == {"(", ")", "[", "]", "{", "}", "?", "*", "+", "-", "|", "^", "$",
              "\\", ".", "&", "~", "#", " ", "\t"}

RECURSIVE re_escape(_)
re_escape(s) ==
    IF Len(s) = 0 THEN s
    ELSE (IF Char(s, 1) \in ReSpecial THEN "\\" \o Char(s, 1) ELSE Char(s, 1))
         \o re_escape(Tail(s))

\* str.lower() on the letters of the model (re.IGNORECASE folds case)
Lower(c) ==
    CASE c = "A" -> "a" [] c = "B" -> "b" [] c = "K" -> "k" [] c = "X" -> "x"
      [] OTHER -> c

\* What the host reports: os.name and platform.system().  (On Windows the
\* paths of the model are taken on the drive of base_dir and written with
\* forward slashes, so that pathlib yields the same parts as on a POSIX host.)
Systems == {"Linux", "Darwin", "Windows"}

os_name(sys) == IF sys = "Windows" THEN "nt" ELSE "posix"

platform_system(sys) == sys

\* The regex at position i starts with the text t
At(re, i, t) == i + Len(t) - 1 <= Len(re) /\ SubSeq(re, i, i + Len(t) - 1) = t

\* The characters with a meaning of their own in an re pattern
ReMeta == {".", "^", "$", "*", "+", "?", "{", "}", "[", "]", "\\", "|", "(", ")"}

\* Does re.compile accept the text from position i on?  It accepts every
\* sequence of the constructs _pattern_to_regex emits: (^|/)  (/|$)  .*?
\* [^/]*  [^/]  ^  $  an escaped non-alphanumeric character and a character
\* without a meaning of its own.  Any other text is taken to be rejected:
\* an unescaped *, +, ?, (, ), [ or { can make re.compile raise.
RECURSIVE Compiles(_, _)
Compiles(re, i) ==
    IF i > Len(re) THEN TRUE
    ELSE IF At(re, i, "(^|/)") \/ At(re, i, "(/|$)") \/ At(re, i, "[^/]*")
         THEN Compiles(re, i + 5)
    ELSE IF At(re, i, "[^/]") THEN Compiles(re, i + 4)
    ELSE IF At(re, i, ".*?") THEN Compiles(re, i + 3)
    ELSE IF At(re, i, "^") \/ At(re, i, "$") THEN Compiles(re, i + 1)
    ELSE IF At(re, i, "\\")
         THEN i + 1 <= Len(re) /\ Char(re, i + 1) \in ReSpecial /\ Compiles(re, i + 2)
    ELSE Char(re, i) \notin ReMeta /\ Compiles(re, i + 1)

\* What stands for the re.error that re.compile raises
ReError == [pattern |-> "<re.error>", ignorecase |-> FALSE]

\* re.compile(text, flags): the compiled pattern, or ReError when it raises
re_compile(text, ignorecase) ==
    IF Compiles(text, 1)
    THEN [pattern |-> text, ignorecase |-> ignorecase]
    ELSE ReError

\* A variant of _pattern_to_regex that does not escape the pattern's text
pattern_to_regex_unescaped(pattern, sys) ==
    LET p0       == Replace(Strip(pattern), "\\", "/")
        dir_only == EndsWith(p0, "/")
        p1       == IF dir_only THEN SubSeq(p0, 1, Len(p0) - 1) ELSE p0
        anchored == StartsWith(p1, "/")
        p2       == IF anchored THEN Tail(p1) ELSE p1
        p4       == Replace(p2, "**/", ".*?/")
        p6       == Replace(p4, "*", "[^/]*")
        p8       == IF anchored THEN "^" \o p6 ELSE "(^|/)" \o p6
        p9       == IF dir_only THEN p8 \o "(/|$)" ELSE p8 \o "$"
    IN  re_compile(p9, os_name(sys) = "nt" \/ platform_system(sys) = "Darwin")

\* A variant of _pattern_to_regex that folds case on Windows only
pattern_to_regex_nt_only(pattern, sys) ==
    LET p0       == Replace(Strip(pattern), "\\", "/")
        dir_only == EndsWith(p0, "/")
        p1       == IF dir_only THEN SubSeq(p0, 1, Len(p0) - 1) ELSE p0
        anchored == StartsWith(p1, "/")
        p2       == IF anchored THEN Tail(p1) ELSE p1
        p3       == re_escape(p2)
        p4       == Replace(p3, "\\*\\*/", ".*?/")
        p5       == Replace(p4, "\\*\\*", ".*?")
        p6       == Replace(p5, "\\*", "[^/]*")
        p7       == Replace(p6, "\\?", "[^/]")
        p8       == IF anchored THEN "^" \o p7 ELSE "(^|/)" \o p7
        p9       == IF dir_only THEN p8 \o "(/|$)" ELSE p8 \o "$"
    IN  re_compile(p9, os_name(sys) = "nt")

\* A variant of _pattern_to_regex that escapes after it has put the wildcards in
pattern_to_regex_escaped_last(pattern, sys) ==
    LET p0       == Replace(Strip(pattern), "\\", "/")
        dir_only == EndsWith(p0, "/")
        p1       == IF dir_only THEN SubSeq(p0, 1, Len(p0) - 1) ELSE p0
        anchored == StartsWith(p1, "/")
        p2       == IF anchored THEN Tail(p1) ELSE p1
        p4       == Replace(p2, "**/", ".*?/")
        p5       == Replace(p4, "**", ".*?")
        p6       == Replace(p5, "*", "[^/]*")
        p7       == re_escape(p6)
        p8       == IF anchored THEN "^" \o p7 ELSE "(^|/)" \o p7
        p9       == IF dir_only THEN p8 \o "(/|$)" ELSE p8 \o "$"
    IN  re_compile(p9, os_name(sys) = "nt" \/ platform_system(sys) = "Darwin")

\* A variant of _pattern_to_regex in which '*' and '?' stand for any characters
pattern_to_regex_crossing_slash(pattern, sys) ==
    LET p0       == Replace(Strip(pattern), "\\", "/")
        dir_only == EndsWith(p0, "/")
        p1       == IF dir_only THEN SubSeq(p0, 1, Len(p0) - 1) ELSE p0
        anchored == StartsWith(p1, "/")
        p2       == IF anchored THEN Tail(p1) ELSE p1
        p3       == re_escape(p2)
        p4       == Replace(p3, "\\*\\*/", ".*?/")
        p5       == Replace(p4, "\\*\\*", ".*?")
        p6       == Replace(p5, "\\*", ".*?")
        p7       == Replace(p6, "\\?", ".*?")
        p8       == IF anchored THEN "^" \o p7 ELSE "(^|/)" \o p7
        p9       == IF dir_only THEN p8 \o "(/|$)" ELSE p8 \o "$"
    IN  re_compile(p9, os_name(sys) = "nt" \/ platform_system(sys) = "Darwin")

\* A variant of _pattern_to_regex that strips a leading '/' without anchoring
pattern_to_regex_unanchored(pattern, sys) ==
    LET p0       == Replace(Strip(pattern), "\\", "/")
        dir_only == EndsWith(p0, "/")
        p1       == IF dir_only THEN SubSeq(p0, 1, Len(p0) - 1) ELSE p0
        anchored == StartsWith(p1, "/")
        p2       == IF anchored THEN Tail(p1) ELSE p1
        p3       == re_escape(p2)
        p4       == Replace(p3, "\\*\\*/", ".*?/")
        p5       == Replace(p4, "\\*\\*", ".*?")
        p6       == Replace(p5, "\\*", "[^/]*")
        p7       == Replace(p6, "\\?", "[^/]")
        p8       == "(^|/)" \o p7
        p9       == IF dir_only THEN p8 \o "(/|$)" ELSE p8 \o "$"
    IN  re_compile(p9, os_name(sys) = "nt" \/ platform_system(sys) = "Darwin")

\* IgnoreManager._pattern_to_regex: the glob as an re pattern plus its flags
pattern_to_regex(pattern, sys) ==
    LET p0       == Replace(Strip(pattern), "\\", "/")
        dir_only == EndsWith(p0, "/")
        p1       == IF dir_only THEN SubSeq(p0, 1, Len(p0) - 1) ELSE p0
        anchored == StartsWith(p1, "/")
        p2       == IF anchored THEN Tail(p1) ELSE p1
        p3       == re_escape(p2)
        p4       == Replace(p3, "\\*\\*/", ".*?/")
        p5       == Replace(p4, "\\*\\*", ".*?")
        p6       == Replace(p5, "\\*", "[^/]*")
        p7       == Replace(p6, "\\?", "[^/]")
        p8       == IF anchored THEN "^" \o p7 ELSE "(^|/)" \o p7
        p9       == IF dir_only THEN p8 \o "(/|$)" ELSE p8 \o "$"
    IN  re_compile(p9, os_name(sys) = "nt" \/ platform_system(sys) = "Darwin")

LitEq(a, b, ignorecase) == IF ignorecase THEN Lower(a) = Lower(b) ELSE a = b

\* Can the regex text re, from position i on, match s starting at position j?
\* Covers the constructs _pattern_to_regex emits: (^|/)  (/|$)  ^  $  .*?
\* [^/]*  [^/]  an escaped character and a plain character.
RECURSIVE MatchFrom(_, _, _, _, _)
MatchFrom(re, i, s, j, ic) ==
    IF i > Len(re) THEN TRUE
    ELSE IF At(re, i, "(^|/)") THEN
        \/ j = 1 /\ MatchFrom(re, i + 5, s, j, ic)
        \/ j <= Len(s) /\ Char(s, j) = "/" /\ MatchFrom(re, i + 5, s, j + 1, ic)
    ELSE IF At(re, i, "(/|$)") THEN
        \/ j <= Len(s) /\ Char(s, j) = "/" /\ MatchFrom(re, i + 5, s, j + 1, ic)
        \/ j = Len(s) + 1 /\ MatchFrom(re, i + 5, s, j, ic)
    ELSE IF At(re, i, ".*?") THEN
        \E k \in j..(Len(s) + 1) : MatchFrom(re, i + 3, s, k, ic)
    ELSE IF At(re, i, "[^/]*") THEN
        \E k \in j..(Len(s) + 1) :
            /\ \A m \in j..(k - 1) : Char(s, m) # "/"
            /\ MatchFrom(re, i + 5, s, k, ic)
    ELSE IF At(re, i, "[^/]") THEN
        j <= Len(s) /\ Char(s, j) # "/" /\ MatchFrom(re, i + 4, s, j + 1, ic)
    ELSE IF At(re, i, "^") THEN j = 1 /\ MatchFrom(re, i + 1, s, j, ic)
    ELSE IF At(re, i, "$") THEN j = Len(s) + 1 /\ MatchFrom(re, i + 1, s, j, ic)
    ELSE IF At(re, i, "\\") THEN
        /\ j <= Len(s)
        /\ LitEq(Char(re, i + 1), Char(s, j), ic)
        /\ MatchFrom(re, i + 2, s, j + 1, ic)
    ELSE
        /\ j <= Len(s)
        /\ LitEq(Char(re, i), Char(s, j), ic)
        /\ MatchFrom(re, i + 1, s, j + 1, ic)

\* Pattern.search(s) is not None
Search(regex, s) ==
    \E start \in 1..(Len(s) + 1) :
        MatchFrom(regex.pattern, 1, s, start, regex.ignorecase)

-----------------------------------------------------------------------------
(* pathlib on a POSIX host: a Path is the sequence of its parts.           *)

RECURSIVE SplitSlash(_)
SplitSlash(s) ==
    LET i == IndexOf("/", s, 1)
    IN  IF i = 0 THEN <<s>>
        ELSE <<SubSeq(s, 1, i - 1)>> \o SplitSlash(SubSeq(s, i + 1, Len(s)))

RECURSIVE Join(_)
Join(parts) ==
    IF parts = <<>> THEN ""
    ELSE IF Len(parts) = 1 THEN parts[1]
    ELSE parts[1] \o "/" \o Join(Tail(parts))

\* os.path.realpath without symbolic links: drop "" and ".", apply ".."
RECURSIVE Collapse(_, _)
Collapse(parts, acc) ==
    IF parts = <<>> THEN acc
    ELSE LET h == Head(parts)
         IN  Collapse(Tail(parts),
                 IF h = "" \/ h = "." THEN acc
                 ELSE IF h = ".."
                      THEN (IF acc = <<>> THEN acc ELSE SubSeq(acc, 1, Len(acc) - 1))
                      ELSE Append(acc, h))

\* Path(path).resolve(): the parts below "/" of the absolute path
resolve(path, wd) ==
    IF StartsWith(path, "/")
    THEN Collapse(SplitSlash(path), <<>>)
    ELSE Collapse(SplitSlash(wd) \o SplitSlash(path), <<>>)

ValueError == "<ValueError>"

\* str(p.relative_to(base)), or ValueError when p is not base or below it
relative_to(p, base) ==
    IF Len(p) >= Len(base) /\ SubSeq(p, 1, Len(base)) = base
    THEN (IF Len(p) = Len(base) THEN "." ELSE Join(SubSeq(p, Len(base) + 1, Len(p))))
    ELSE ValueError

\* The project root the manager was constructed on
base_dir == "/w"

\* A variant that tests the root as a string prefix instead of part by part
rel_path_of_str_prefix(path, wd) ==
    LET abs == "/" \o Join(resolve(path, wd))
    IN  IF ~StartsWith(abs, base_dir) THEN ValueError
        ELSE IF abs = base_dir THEN "."
        ELSE LET rest == SubSeq(abs, Len(base_dir) + 1, Len(abs))
             IN  IF StartsWith(rest, "/") THEN Tail(rest) ELSE rest

\* should_ignore lines 110-114: the root-relative form of path, or ValueError
rel_path_of(path, wd) ==
    LET rel == relative_to(resolve(path, wd), resolve(base_dir, wd))
    IN  IF rel = ValueError THEN ValueError ELSE Replace(rel, "\\", "/")

\* is_neg / raw of a line or pattern text (lines 44-45, 130-131, 145-146)
is_neg_of(text) == StartsWith(text, "!")

raw_of(text) == IF is_neg_of(text) THEN Tail(text) ELSE text

-----------------------------------------------------------------------------
(* The inputs the model draws from, per project tree.                      *)

Projects ==
    {"node_modules", "build", "globs", "logs", "specials", "tree", "anchors",
     "wildcards", "case", "roundtrip", "repo"}

\* Texts given to add_pattern and remove_pattern
TextPool(proj) ==
    CASE proj = "node_modules" ->
            {"node_modules/", "!node_modules/keep/", "node_modules/keep/*.tmp"}
      [] proj = "build" -> {"build/", "!build/", " build/ ", "build", ""}
      [] proj = "globs" -> {"a/**/b", "*.pyc", "!keep.pyc", "!"}
      [] proj = "logs" -> {"logs/", "!logs/keep.log"}
      [] proj = "specials" -> {"[x", "a+(b|c)\\{1}$", "***/?*"}
      [] proj = "tree" -> {"exclude.py", "src/"}
      [] proj = "anchors" -> {"/build/", "build/"}
      [] proj = "wildcards" -> {"a/*.py", "a?c", "a.c"}
      [] proj = "case" -> {"*.bak", "ABK/"}
      [] proj = "roundtrip" -> {"#tmp", "!x"}
      [] proj = "repo" -> {"*.pyc"}

\* Texts given to add_ignore_pattern and remove_ignore_pattern, where a
\* ContextManager is run (its base_dir is the working directory)
ContextTextPool(proj) ==
    CASE proj = "tree" -> {"exclude.py", "!exclude.py", "file.py"}
      [] proj = "repo" -> {"*.pyc"}
      [] OTHER -> {}

\* Members of the sets given to set_patterns
NormalsPool(proj) ==
    CASE proj = "node_modules" -> {"node_modules/"}
      [] proj = "build" -> {"build/", " build/", ""}
      [] proj = "globs" -> {"*.pyc", " a/**/b"}
      [] proj = "logs" -> {"logs/"}
      [] proj = "roundtrip" -> {"!x"}
      [] OTHER -> {}

NegationsPool(proj) ==
    CASE proj = "node_modules" -> {"node_modules/keep/"}
      [] proj = "build" -> {"build/"}
      [] proj = "globs" -> {"keep.pyc"}
      [] proj = "logs" -> {"logs/keep.log"}
      [] proj = "roundtrip" -> {"x"}
      [] OTHER -> {}

\* Contents of .contextr/.ignore found at construction
NoFile == [exists |-> FALSE, lines |-> <<>>]

File(lines) == [exists |-> TRUE, lines |-> lines]

FilePool(proj) ==
    CASE proj = "node_modules" ->
            {NoFile, File(<<"node_modules/", "!node_modules/keep/">>)}
      [] proj = "build" ->
            {NoFile, File(<<>>), File(<<"# rules", "build/", "", "!build/">>),
             File(<<"build/", "build/">>)}
      [] proj = "globs" ->
            {NoFile, File(<<"*.pyc", "!keep.pyc">>),
             File(<<" *.pyc ", "  # note", "! keep.pyc">>)}
      [] proj = "logs" -> {NoFile, File(<<"logs/">>)}
      [] proj = "specials" -> {NoFile, File(<<"[x">>)}
      [] OTHER -> {NoFile}

\* Paths given to should_ignore
PathPool(proj) ==
    CASE proj = "node_modules" ->
            {"/w/node_modules/drop/y.js", "/w/node_modules/keep/x.js",
             "/w/node_modules/keep/tmp.tmp"}
      [] proj = "build" ->
            {"/w/build/out.txt", "/w/x/build/out.txt", "/w/x/build/y/out.txt",
             "/w/rebuild/out.txt", "build/out.txt", "/w2/build/out.txt",
             "/w/../build/out.txt", "/w", "/w/docs/build"}
      [] proj = "globs" ->
            {"/w/a/b", "/w/a/x/y/b", "/w/keep.pyc", "/w/x/a.pyc"}
      [] proj = "logs" -> {"/w/logs/a.log", "/w/logs/keep.log"}
      [] proj = "specials" -> {"/w/[x", "/w/a+(b|c)/{1}$", "/w/q/ab"}
      [] proj = "tree" -> {"/w/file.py", "/w/src/exclude.py"}
      [] proj = "anchors" -> {"/w/build/out.txt", "/w/x/build/out.txt"}
      [] proj = "wildcards" ->
            {"/w/a/c.py", "/w/a/b/c.py", "/w/abc", "/w/a/c", "/w/ac", "/w/a.c"}
      [] proj = "case" -> {"/w/x.bak", "/w/x.BAK", "/w/abk/f"}
      [] proj = "roundtrip" -> {"/w/x"}
      [] proj = "repo" -> {"/w/a.pyc"}

\* The hosts a project is run on
HostsOf(proj) == IF proj = "case" THEN Systems ELSE {"Linux", "Darwin"}

\* Working directories of the process
CwdPool == {"/w", "/home/u"}

\* The working directory a project is run in: ContextManager takes it for
\* its base_dir, so the tree it manages is run in base_dir
CwdOf(proj) == IF proj \in {"tree", "repo"} THEN {base_dir} ELSE CwdPool

\* The files and the directories that exist under base_dir (the rules file
\* and the state file under .contextr apart)
TreeFiles(proj) ==
    CASE proj = "tree" -> {"/w/file.py", "/w/src/main.py", "/w/src/exclude.py"}
      [] proj = "build" -> {"/w/build/out.txt", "/w/docs/build"}
      [] OTHER -> {}

TreeDirs(proj) ==
    CASE proj = "tree" -> {"/w", "/w/src"}
      [] proj = "build" -> {"/w", "/w/build", "/w/docs"}
      [] OTHER -> {base_dir}

\* <base_dir>/.gitignore, which the model never writes
GitignoreOf(proj) ==
    IF proj = "repo"
    THEN File(<<"*.pyc", "# build output", "", " build/ ">>)
    ELSE NoFile

\* The files the program itself keeps under base_dir, and .gitignore
IgnorePath == base_dir \o "/.contextr/.ignore"

StatePath == base_dir \o "/.contextr/state.json"

GitignorePath == base_dir \o "/.gitignore"

\* Lists of patterns given to normalize_paths, add_files and remove_files
PatternLists(proj) ==
    IF proj = "tree"
    THEN {<<>>,
          <<"file.py", "./file.py", "/w/file.py">>,
          <<"src/exclude.py">>,
          <<"src/*.py">>,
          <<"src">>,
          <<"src", "src/*.py", "file.py">>,
          <<"missing.py", "src/exclude.py">>}
    ELSE {}

\* The patterns of those lists
PatternPool(proj) ==
    UNION {{list[i] : i \in 1..Len(list)} : list \in PatternLists(proj)}

\* The order in which the operating system lists a directory
Listings == {"ascending", "descending"}

-----------------------------------------------------------------------------
(* The pure functions above, tabulated once over the pools.                *)

AllRaws ==
    UNION {{raw_of(Strip(t)) : t \in TextPool(proj) \cup ContextTextPool(proj)}
           \cup {Strip(t) : t \in NormalsPool(proj) \cup NegationsPool(proj)}
           \cup UNION {{raw_of(Strip(f.lines[i])) : i \in 1..Len(f.lines)}
                       : f \in FilePool(proj)}
           : proj \in Projects}

AllPaths ==
    UNION {PathPool(proj) \cup TreeFiles(proj) \cup TreeDirs(proj) : proj \in Projects}
    \cup {IgnorePath, StatePath, GitignorePath}

RegexTable == [sys \in Systems |-> [raw \in AllRaws |-> pattern_to_regex(raw, sys)]]

RelPathTable == [wd \in CwdPool |-> [path \in AllPaths |-> rel_path_of(path, wd)]]

AllRegexes == {RegexTable[sys][raw] : sys \in Systems, raw \in AllRaws}

AllRels == {RelPathTable[wd][path] : wd \in CwdPool, path \in AllPaths} \ {ValueError}

SearchTable == [regex \in AllRegexes |-> [rel \in AllRels |-> Search(regex, rel)]]

\* r.regex.search(rel_path), looked up
regex_search(regex, rel) == SearchTable[regex][rel]

-----------------------------------------------------------------------------
(* class IgnoreManager                                                     *)

None == "None"

\* _Rule.regex before compile_patterns has run: None
NoRegex == [pattern |-> None, ignorecase |-> FALSE]

\* _Rule(raw=raw, is_negation=is_neg): regex defaults to None
Rule(raw, is_neg) == [raw |-> raw, is_negation |-> is_neg, regex |-> NoRegex]

\* the exception compile_patterns raises on rs: the re.error of the first
\* pattern that does not compile, None when it returns
compile_raised(rs, sys) ==
    IF \E i \in 1..Len(rs) : RegexTable[sys][rs[i].raw] = ReError
    THEN "re.error"
    ELSE None

\* compile_patterns: every rule gets the regex of its raw pattern, up to the
\* first rule whose pattern does not compile
compile_patterns(rs, sys) ==
    [i \in 1..Len(rs) |->
        IF \E j \in 1..i : RegexTable[sys][rs[j].raw] = ReError
        THEN rs[i]
        ELSE [rs[i] EXCEPT !.regex = RegexTable[sys][rs[i].raw]]]

\* A variant of the loop that takes comment lines for rules
RECURSIVE load_lines_keeping_comments(_)
load_lines_keeping_comments(lines) ==
    IF lines = <<>> THEN <<>>
    ELSE LET line == Strip(Head(lines))
         IN  IF line = ""
             THEN load_lines_keeping_comments(Tail(lines))
             ELSE <<Rule(raw_of(line), is_neg_of(line))>>
                  \o load_lines_keeping_comments(Tail(lines))

\* the loop of _load_patterns over the lines of the file
RECURSIVE load_lines(_)
load_lines(lines) ==
    IF lines = <<>> THEN <<>>
    ELSE LET line == Strip(Head(lines))
         IN  IF line = "" \/ StartsWith(line, "#")
             THEN load_lines(Tail(lines))
             ELSE <<Rule(raw_of(line), is_neg_of(line))>> \o load_lines(Tail(lines))

\* _load_patterns
load_patterns(file, sys) ==
    compile_patterns(IF file.exists THEN load_lines(file.lines) ELSE <<>>, sys)

\* list_patterns
list_patterns(rs) ==
    [i \in 1..Len(rs) |-> (IF rs[i].is_negation THEN "!" ELSE "") \o rs[i].raw]

\* A variant of save_patterns that writes the raw patterns without the '!'
save_patterns_without_bang(rs) == File([i \in 1..Len(rs) |-> rs[i].raw])

\* save_patterns: the file as written, one line per rule
save_patterns(rs) == File(list_patterns(rs))

\* How a save_patterns call fares on the disk: it completes, it fails before
\* the file is opened for writing (mkdir or open raises), or it fails after
\* the file was truncated and only the first `lines` lines reached the disk
DiskOk == [error |-> None, lines |-> 0]

DiskOutcomes ==
    {DiskOk, [error |-> "open", lines |-> 0]}
    \cup {[error |-> "write", lines |-> n] : n \in 0..(MaxRules - 1)}

\* The disk outcomes the model draws from, per project tree
DiskPool(proj) == IF proj = "logs" THEN DiskOutcomes ELSE {DiskOk}

\* the file save_patterns leaves behind when the disk behaves as `disk`
file_after_save(file, rs, disk) ==
    IF disk.error = None THEN save_patterns(rs)
    ELSE IF disk.error = "open" THEN file
    ELSE File(SubSeq(save_patterns(rs).lines, 1, disk.lines))

\* can the disk behave as `disk` while rs is saved?  (a write of n lines
\* fails only while a further line is left to write)
CanHappen(disk, rs) == disk.error = "write" => disk.lines < Len(rs)

\* the exception save_patterns raises, None when it returns
save_raised(disk) == IF disk.error = None THEN None ELSE "OSError"

\* compile_patterns() then save_patterns() on the list rs, as add_pattern,
\* remove_pattern and set_patterns end: the exception raised, and the file left
compile_save_raised(rs, sys, disk) ==
    IF compile_raised(rs, sys) # None THEN compile_raised(rs, sys) ELSE save_raised(disk)

file_after_compile_save(file, rs, sys, disk) ==
    IF compile_raised(rs, sys) # None THEN file ELSE file_after_save(file, rs, disk)

\* A variant of the scan that lets the first matching rule decide
RECURSIVE scan_rules_first_match(_, _, _, _)
scan_rules_first_match(rs, i, rel, ignored) ==
    IF i > Len(rs) THEN ignored
    ELSE IF regex_search(rs[i].regex, rel) THEN ~rs[i].is_negation
    ELSE scan_rules_first_match(rs, i + 1, rel, ignored)

\* A variant of the scan in which a matching negation wins wherever it stands
scan_rules_negation_wins(rs, i, rel, ignored) ==
    /\ \E k \in i..Len(rs) : regex_search(rs[k].regex, rel) /\ ~rs[k].is_negation
    /\ ~\E k \in i..Len(rs) : regex_search(rs[k].regex, rel) /\ rs[k].is_negation

\* A variant of the scan that takes a matching negation for a normal rule
RECURSIVE scan_rules_negation_blind(_, _, _, _)
scan_rules_negation_blind(rs, i, rel, ignored) ==
    IF i > Len(rs) THEN ignored
    ELSE scan_rules_negation_blind(rs, i + 1, rel,
             IF regex_search(rs[i].regex, rel) THEN TRUE ELSE ignored)

\* the scan of should_ignore (lines 116-121) over the rules from index i
RECURSIVE scan_rules(_, _, _, _)
scan_rules(rs, i, rel, ignored) ==
    IF i > Len(rs) THEN ignored
    ELSE scan_rules(rs, i + 1, rel,
             IF regex_search(rs[i].regex, rel) THEN ~rs[i].is_negation ELSE ignored)

\* should_ignore(path) with the rules rs and working directory wd
should_ignore(rs, wd, path) ==
    LET rel == RelPathTable[wd][path]
    IN  IF rel = ValueError THEN FALSE ELSE scan_rules(rs, 1, rel, FALSE)

\* the exception should_ignore raises: line 118 asserts every rule is compiled
should_ignore_raised(rs, wd, path) ==
    IF RelPathTable[wd][path] # ValueError /\ \E i \in 1..Len(rs) : rs[i].regex = NoRegex
    THEN "AssertionError"
    ELSE None

\* any(r.raw == raw and r.is_negation == is_neg for r in rules)
has_rule(rs, raw, is_neg) ==
    \E i \in 1..Len(rs) : rs[i].raw = raw /\ rs[i].is_negation = is_neg

\* A variant of add_pattern that puts a new rule first
add_rules_prepend(rs, pattern, sys) ==
    LET raw == raw_of(pattern)
        neg == is_neg_of(pattern)
    IN  compile_patterns(
            IF has_rule(rs, raw, neg) THEN rs ELSE <<Rule(raw, neg)>> \o rs, sys)

\* A variant of add_pattern that does not compile after appending
add_rules_uncompiled(rs, pattern, sys) ==
    LET raw == raw_of(pattern)
        neg == is_neg_of(pattern)
    IN  IF has_rule(rs, raw, neg) THEN rs ELSE Append(rs, Rule(raw, neg))

\* the rule list add_pattern leaves for a non-empty stripped text
add_rules(rs, pattern, sys) ==
    LET raw == raw_of(pattern)
        neg == is_neg_of(pattern)
    IN  compile_patterns(
            IF has_rule(rs, raw, neg) THEN rs ELSE Append(rs, Rule(raw, neg)), sys)

\* the rule list remove_pattern leaves for a non-empty stripped text
remove_rules(rs, pattern) ==
    SelectSeq(rs, LAMBDA r :
        ~(r.raw = raw_of(pattern) /\ r.is_negation = is_neg_of(pattern)))

\* A variant of set_patterns that stores the negations before the normals
set_rules_negations_first(normals, negations, sys) ==
    LET ns == sorted({p \in normals : Strip(p) # ""})
        gs == sorted({p \in negations : Strip(p) # ""})
    IN  compile_patterns(
            [i \in 1..Len(gs) |-> Rule(Strip(gs[i]), TRUE)]
            \o [i \in 1..Len(ns) |-> Rule(Strip(ns[i]), FALSE)], sys)

\* the rule list set_patterns builds
set_rules(normals, negations, sys) ==
    LET ns == sorted({p \in normals : Strip(p) # ""})
        gs == sorted({p \in negations : Strip(p) # ""})
    IN  compile_patterns(
            [i \in 1..Len(ns) |-> Rule(Strip(ns[i]), FALSE)]
            \o [i \in 1..Len(gs) |-> Rule(Strip(gs[i]), TRUE)], sys)

\* The record of a call: its name, arguments, return value and the exception
\* it raised (None when it returned)
Call(op, text, normals, negations, ret) ==
    [op |-> op, text |-> text, normals |-> normals, negations |-> negations,
     ret |-> ret, raised |-> None]

\* The record of a call that raised exc (and so returned nothing) when exc is
\* an exception, of a call that returned ret when exc is None
Outcome(op, text, normals, negations, ret, exc) ==
    IF exc = None
    THEN Call(op, text, normals, negations, ret)
    ELSE [Call(op, text, normals, negations, None) EXCEPT !.raised = exc]

Tracked(texts) == [tracked |-> TRUE, texts |-> texts]

Untracked == [tracked |-> FALSE, texts |-> <<>>]

-----------------------------------------------------------------------------
(* contextr.utils.path_utils                                               *)

\* str() of a resolved Path, given its parts below "/"
path_str(parts) == "/" \o Join(parts)

\* make_absolute(path, base_dir): an absolute path is resolved as it is, a
\* relative one below base_dir
make_absolute(path, base) == path_str(resolve(path, base))

\* make_relative(path, base_dir): the path relative to base_dir when it lies
\* below it, else the absolute path
make_relative(path, base, wd) ==
    LET p   == resolve(path, wd)
        rel == relative_to(p, Collapse(SplitSlash(base), <<>>))
    IN  IF rel = ValueError THEN path_str(p) ELSE rel

\* fnmatch of one name against one pattern segment with '*' and '?'
RECURSIVE fnmatch(_, _)
fnmatch(name, pat) ==
    IF Len(pat) = 0 THEN Len(name) = 0
    ELSE IF Char(pat, 1) = "*"
         THEN \/ fnmatch(name, Tail(pat))
              \/ Len(name) > 0 /\ fnmatch(Tail(name), pat)
    ELSE IF Char(pat, 1) = "?"
         THEN Len(name) > 0 /\ fnmatch(Tail(name), Tail(pat))
    ELSE /\ Len(name) > 0
         /\ Char(name, 1) = Char(pat, 1)
         /\ fnmatch(Tail(name), Tail(pat))

\* glob.has_magic for the wildcards of the model, '*' and '?'
has_magic(s) == IndexOf("*", s, 1) > 0 \/ IndexOf("?", s, 1) > 0

\* Do the segments of an existing path match the segments of a glob pattern?
\* A segment without wildcards matches itself; one with wildcards matches by
\* fnmatch a name that is not hidden (a hidden name only when the segment
\* starts with '.'); the segment ** (recursive=True) stands for zero or more
\* directories that are not hidden.  (The pattern pools keep ** out of the
\* last segment, where glob also yields the directory itself.)
RECURSIVE GlobMatch(_, _)
GlobMatch(pats, segs) ==
    IF pats = <<>> THEN segs = <<>>
    ELSE IF Head(pats) = "**"
         THEN \/ GlobMatch(Tail(pats), segs)
              \/ /\ segs # <<>>
                 /\ ~StartsWith(Head(segs), ".")
                 /\ GlobMatch(pats, Tail(segs))
    ELSE /\ segs # <<>>
         /\ IF has_magic(Head(pats))
            THEN /\ StartsWith(Head(segs), ".") => StartsWith(Head(pats), ".")
                 /\ fnmatch(Head(segs), Head(pats))
            ELSE Head(segs) = Head(pats)
         /\ GlobMatch(Tail(pats), Tail(segs))

\* a sequence back to front
Reverse(q) == [i \in 1..Len(q) |-> q[Len(q) + 1 - i]]

\* glob.glob(abs_pattern, recursive=True) on the tree of proj: the existing
\* paths that match, in the order the directories are listed in
glob(abs_pattern, proj, listing) ==
    LET matched == {p \in TreeFiles(proj) \cup TreeDirs(proj) :
                        GlobMatch(SplitSlash(Tail(abs_pattern)), SplitSlash(Tail(p)))}
    IN  IF listing = "ascending" THEN sorted(matched) ELSE Reverse(sorted(matched))

\* make_absolute and glob.glob, tabulated once over the pattern pools
AbsTable ==
    [pattern \in UNION {PatternPool(proj) : proj \in Projects} |->
        make_absolute(pattern, base_dir)]

GlobTable ==
    [proj \in Projects |-> [pattern \in PatternPool(proj) |->
        [listing \in Listings |-> glob(AbsTable[pattern], proj, listing)]]]

\* A variant of normalize_paths that leaves the matches of a glob unfiltered
RECURSIVE normalize_paths_glob_unfiltered(_, _, _, _, _, _)
normalize_paths_glob_unfiltered(patterns, rs, ignore_manager, wd, proj, listing) ==
    IF patterns = <<>> THEN <<>>
    ELSE LET pattern     == Head(patterns)
             abs_pattern == AbsTable[pattern]
             found ==
                IF has_magic(pattern)
                THEN GlobTable[proj][pattern][listing]
                ELSE IF abs_pattern \in TreeFiles(proj) \cup TreeDirs(proj)
                     THEN (IF ignore_manager /\ should_ignore(rs, wd, abs_pattern)
                           THEN <<>>
                           ELSE <<abs_pattern>>)
                     ELSE <<>>
         IN  found \o normalize_paths_glob_unfiltered(Tail(patterns), rs,
                          ignore_manager, wd, proj, listing)

\* normalize_paths(patterns, base_dir, ignore_manager): the list all_paths;
\* ignore_manager says whether one is given, rs are its rules
RECURSIVE normalize_paths(_, _, _, _, _, _)
normalize_paths(patterns, rs, ignore_manager, wd, proj, listing) ==
    IF patterns = <<>> THEN <<>>
    ELSE LET pattern     == Head(patterns)
             abs_pattern == AbsTable[pattern]
             matched     == GlobTable[proj][pattern][listing]
             found ==
                IF has_magic(pattern)
                THEN (IF ignore_manager
                      THEN SelectSeq(matched, LAMBDA f : ~should_ignore(rs, wd, f))
                      ELSE matched)
                ELSE IF abs_pattern \in TreeFiles(proj) \cup TreeDirs(proj)
                     THEN (IF ignore_manager /\ should_ignore(rs, wd, abs_pattern)
                           THEN <<>>
                           ELSE <<abs_pattern>>)
                     ELSE <<>>
         IN  found \o normalize_paths(Tail(patterns), rs, ignore_manager, wd,
                                      proj, listing)

-----------------------------------------------------------------------------
(* class ContextManager                                                    *)

\* the files p.rglob("*") finds below the directory d
files_under(d, proj) == {f \in TreeFiles(proj) : StartsWith(f, d \o "/")}

\* what one entry of abs_paths adds to the context (add_files lines 173-186)
added_by(path, rs, wd, proj) ==
    IF path \in TreeFiles(proj) /\ ~should_ignore(rs, wd, path) THEN {path}
    ELSE IF path \in TreeDirs(proj)
         THEN {f \in files_under(path, proj) : ~should_ignore(rs, wd, f)}
         ELSE {}

\* the paths add_files adds for the list abs_paths
added_files(abs_paths, rs, wd, proj) ==
    UNION {added_by(abs_paths[i], rs, wd, proj) : i \in 1..Len(abs_paths)}

\* state.json: absent, or the list under "files"
NoState == [exists |-> FALSE, files |-> <<>>]

\* make_relative(path, base_dir), tabulated once over the files of the trees
MakeRelativeTable ==
    [wd \in CwdPool |->
        [path \in UNION {TreeFiles(proj) : proj \in Projects}
                   \cup {IgnorePath, StatePath, GitignorePath} |->
            make_relative(path, base_dir, wd)]]

\* sorted() of all the files a context can hold, computed once
SortedContextPaths ==
    sorted(UNION {TreeFiles(proj) : proj \in Projects}
           \cup {IgnorePath, StatePath, GitignorePath})

\* _save_state: the sorted paths, each made relative to base_dir
save_state(fs, wd) ==
    LET paths == SelectSeq(SortedContextPaths, LAMBDA f : f \in fs)
    IN  [exists |-> TRUE,
         files  |-> [i \in 1..Len(paths) |-> MakeRelativeTable[wd][paths[i]]]]

\* _load_state: the listed paths made absolute again, nothing without a file
load_state(state) ==
    {make_absolute(state.files[i], base_dir) : i \in 1..Len(state.files)}

\* str(Path(filepath).parent)
parent(path) ==
    LET parts == resolve(path, base_dir)
    IN  path_str(SubSeq(parts, 1, Len(parts) - 1))

\* parent, tabulated once over the files a context can hold
ParentTable ==
    [f \in UNION {TreeFiles(proj) : proj \in Projects}
            \cup {IgnorePath, StatePath, GitignorePath} |-> parent(f)]

\* the files p.rglob("*") finds below the directory d when hidden files count:
\* those of the tree, the rules file and the state file when they exist (file
\* and state say whether they do), and .gitignore
rglob_files(d, proj, file, state) ==
    {f \in TreeFiles(proj)
            \cup (IF file THEN {IgnorePath} ELSE {})
            \cup (IF state THEN {StatePath} ELSE {})
            \cup (IF GitignoreOf(proj).exists THEN {GitignorePath} ELSE {}) :
        StartsWith(f, d \o "/")}

\* what one entry of abs_paths takes out of the context fs (remove_files
\* lines 208-217)
removed_by(path, fs, proj) ==
    IF path \in TreeFiles(proj) THEN {path} \cap fs
    ELSE IF path \in TreeDirs(proj)
         THEN {f \in fs : StartsWith(f, path \o "/")}
         ELSE {}

\* sync_gitignore lines 95-99: the set of the trimmed lines of .gitignore
\* that are not blank and do not start with '#'
gitignore_patterns(lines) ==
    {Strip(lines[i]) : i \in {k \in 1..Len(lines) :
                                 Strip(lines[k]) # "" /\ ~StartsWith(lines[k], "#")}}

\* reading ignore_manager.patterns (line 102): IgnoreManager keeps its rules
\* in _rules and has no attribute of that name
AttributeError == "AttributeError"

-----------------------------------------------------------------------------
(* The state machine.                                                      *)

\* IgnoreManager(base_dir), and around it ContextManager(): the state after
\* __init__, with an empty context and no state file
Init ==
    /\ project \in Projects
    /\ system \in HostsOf(project)
    /\ cwd \in CwdOf(project)
    /\ ignore_file \in FilePool(project)
    /\ rules = load_patterns(ignore_file, system)
    /\ last = Outcome("__init__", "", {}, {}, None, compile_raised(rules, system))
    /\ added = IF rules = <<>> THEN Tracked(<<>>) ELSE Untracked
    /\ files = {}
    /\ state_file = NoState

\* a new ContextManager, with its new IgnoreManager, on the same base_dir
\* (the next run of the tool): the rules and the context are loaded again
Construct ==
    /\ files' = load_state(state_file)
    /\ rules' = load_patterns(ignore_file, system)
    /\ last' = Outcome("__init__", "", {}, {}, None, compile_raised(rules', system))
    /\ added' = IF rules' = <<>> THEN Tracked(<<>>) ELSE Untracked
    /\ UNCHANGED <<ignore_file, cwd, system, project, state_file>>

\* A variant of add_pattern that restores the rule list when the save fails
AddPattern_rollback(text, disk) ==
    LET pattern  == Strip(text)
        appended == pattern # "" /\ ~has_rule(rules, raw_of(pattern), is_neg_of(pattern))
        mutated  == add_rules(rules, pattern, system)
    IN  /\ appended => Len(rules) < MaxRules
        /\ IF pattern = ""
           THEN /\ disk = DiskOk
                /\ UNCHANGED <<rules, ignore_file>>
                /\ last' = Call("add_pattern", text, {}, {}, None)
           ELSE /\ CanHappen(disk, mutated)
                /\ rules' = IF save_raised(disk) = None THEN mutated ELSE rules
                /\ ignore_file' = file_after_save(ignore_file, mutated, disk)
                /\ last' = Outcome("add_pattern", text, {}, {}, None,
                                   save_raised(disk))
        /\ added' = Untracked
        /\ UNCHANGED <<cwd, system, project, files, state_file>>

AddPattern(text, disk) ==
    LET pattern  == Strip(text)
        appended == pattern # "" /\ ~has_rule(rules, raw_of(pattern), is_neg_of(pattern))
    IN  /\ appended => Len(rules) < MaxRules
        /\ IF pattern = ""
           THEN /\ disk = DiskOk
                /\ UNCHANGED <<rules, ignore_file>>
                /\ last' = Call("add_pattern", text, {}, {}, None)
           ELSE /\ rules' = add_rules(rules, pattern, system)
                /\ CanHappen(disk, rules')
                /\ ignore_file' = file_after_compile_save(ignore_file, rules', system, disk)
                /\ last' = Outcome("add_pattern", text, {}, {}, None,
                                   compile_save_raised(rules', system, disk))
        /\ added' = IF added.tracked /\ appended
                    THEN Tracked(Append(added.texts, text))
                    ELSE Untracked
        /\ UNCHANGED <<cwd, system, project, files, state_file>>

RemovePattern(text, disk) ==
    LET pattern == Strip(text)
        after   == IF pattern = "" THEN rules ELSE remove_rules(rules, pattern)
        removed == Len(after) # Len(rules)
    IN  /\ rules' = after
        /\ IF removed
           THEN /\ CanHappen(disk, after)
                /\ ignore_file' = file_after_compile_save(ignore_file, after, system, disk)
                /\ last' = Outcome("remove_pattern", text, {}, {}, TRUE,
                                   compile_save_raised(after, system, disk))
           ELSE /\ disk = DiskOk
                /\ UNCHANGED ignore_file
                /\ last' = Call("remove_pattern", text, {}, {}, FALSE)
        /\ added' = Untracked
        /\ UNCHANGED <<cwd, system, project, files, state_file>>

\* A variant of clear_patterns that does not save
ClearPatterns_not_persisted(disk) ==
    /\ disk = DiskOk
    /\ rules' = <<>>
    /\ last' = Call("clear_patterns", "", {}, {}, None)
    /\ added' = Tracked(<<>>)
    /\ UNCHANGED <<ignore_file, cwd, system, project, files, state_file>>

ClearPatterns(disk) ==
    /\ rules' = <<>>
    /\ CanHappen(disk, rules')
    /\ ignore_file' = file_after_save(ignore_file, rules', disk)
    /\ last' = Outcome("clear_patterns", "", {}, {}, None, save_raised(disk))
    /\ added' = Tracked(<<>>)
    /\ UNCHANGED <<cwd, system, project, files, state_file>>

SetPatterns(normals, negations, disk) ==
    /\ Cardinality(normals) + Cardinality(negations) <= MaxRules
    /\ rules' = set_rules(normals, negations, system)
    /\ CanHappen(disk, rules')
    /\ ignore_file' = file_after_compile_save(ignore_file, rules', system, disk)
    /\ last' = Outcome("set_patterns", "", normals, negations, None,
                       compile_save_raised(rules', system, disk))
    /\ added' = Untracked
    /\ UNCHANGED <<cwd, system, project, files, state_file>>

\* A variant of should_ignore that reloads the rules file before it answers
ShouldIgnore_reloading(path) ==
    /\ rules' = load_patterns(ignore_file, system)
    /\ last' = Call("should_ignore", path, {}, {}, should_ignore(rules', cwd, path))
    /\ UNCHANGED <<ignore_file, cwd, system, project, added, files, state_file>>

ShouldIgnore(path) ==
    /\ last' = IF should_ignore_raised(rules, cwd, path) = None
               THEN Call("should_ignore", path, {}, {}, should_ignore(rules, cwd, path))
               ELSE [Call("should_ignore", path, {}, {}, None)
                        EXCEPT !.raised = should_ignore_raised(rules, cwd, path)]
    /\ UNCHANGED <<rules, ignore_file, cwd, system, project, added, files, state_file>>

\* normalize_paths(patterns, base_dir, ignore_manager), called on its own
NormalizePaths(patterns, ignore_manager, listing) ==
    /\ last' = Call("normalize_paths",
                    IF ignore_manager THEN "ignore_manager" ELSE "None", {}, {},
                    normalize_paths(patterns, rules, ignore_manager, cwd, project,
                                    listing))
    /\ UNCHANGED <<rules, ignore_file, cwd, system, project, added, files, state_file>>

\* ContextManager.add_files(patterns)
AddFiles(patterns, listing) ==
    LET abs_paths == normalize_paths(patterns, rules, TRUE, cwd, project, listing)
        new_files == added_files(abs_paths, rules, cwd, project)
    IN  /\ IF abs_paths = <<>>
           THEN /\ UNCHANGED <<files, state_file>>
                /\ last' = Call("add_files", "", {}, {}, 0)
           ELSE /\ files' = files \cup new_files
                /\ state_file' = save_state(files', cwd)
                /\ last' = Call("add_files", "", {}, {}, Cardinality(new_files \ files))
        /\ UNCHANGED <<rules, ignore_file, cwd, system, project, added>>

\* ContextManager.add_ignore_pattern(pattern): the rule is added, the files
\* of the context that are now ignored leave it, and the directories they
\* lay in are scanned again for files that are not ignored (the state file,
\* written at line 50, exists by then)
AddIgnorePattern(text, disk) ==
    LET pattern  == Strip(text)
        appended == pattern # "" /\ ~has_rule(rules, raw_of(pattern), is_neg_of(pattern))
        raised   == IF pattern = "" THEN None
                    ELSE compile_save_raised(rules', system, disk)
        files_to_remove == {f \in files : should_ignore(rules', cwd, f)}
        cleaned_dirs    == {ParentTable[f] : f \in files_to_remove}
        rescanned ==
            UNION {{f \in rglob_files(d, project, ignore_file'.exists, TRUE) :
                        ~should_ignore(rules', cwd, f)} : d \in cleaned_dirs}
    IN  /\ appended => Len(rules) < MaxRules
        /\ rules' = IF pattern = "" THEN rules ELSE add_rules(rules, pattern, system)
        /\ IF pattern = "" THEN disk = DiskOk ELSE CanHappen(disk, rules')
        /\ ignore_file' =
               IF pattern = "" THEN ignore_file
               ELSE file_after_compile_save(ignore_file, rules', system, disk)
        /\ IF raised # None
           THEN /\ UNCHANGED <<files, state_file>>
                /\ last' = Outcome("add_ignore_pattern", text, {}, {}, None, raised)
           ELSE /\ files' = (files \ files_to_remove) \cup rescanned
                /\ state_file' = save_state(files', cwd)
                /\ last' = Call("add_ignore_pattern", text, {}, {},
                                <<Cardinality(files_to_remove),
                                  Cardinality(cleaned_dirs)>>)
        /\ added' = IF added.tracked /\ appended
                    THEN Tracked(Append(added.texts, text))
                    ELSE Untracked
        /\ UNCHANGED <<cwd, system, project>>

\* ContextManager.remove_ignore_pattern(pattern): remove_pattern and nothing
\* else, the context stays as it is
RemoveIgnorePattern(text, disk) ==
    LET pattern == Strip(text)
        after   == IF pattern = "" THEN rules ELSE remove_rules(rules, pattern)
        removed == Len(after) # Len(rules)
    IN  /\ rules' = after
        /\ IF removed
           THEN /\ CanHappen(disk, after)
                /\ ignore_file' = file_after_compile_save(ignore_file, after, system, disk)
                /\ last' = Outcome("remove_ignore_pattern", text, {}, {}, TRUE,
                                   compile_save_raised(after, system, disk))
           ELSE /\ disk = DiskOk
                /\ UNCHANGED ignore_file
                /\ last' = Call("remove_ignore_pattern", text, {}, {}, FALSE)
        /\ added' = Untracked
        /\ UNCHANGED <<cwd, system, project, files, state_file>>

\* ContextManager.remove_files(patterns)
RemoveFiles(patterns, listing) ==
    LET abs_paths == normalize_paths(patterns, rules, FALSE, cwd, project, listing)
        files_to_remove ==
            UNION {removed_by(abs_paths[i], files, project) : i \in 1..Len(abs_paths)}
    IN  /\ IF abs_paths = <<>>
           THEN /\ UNCHANGED <<files, state_file>>
                /\ last' = Call("remove_files", "", {}, {}, 0)
           ELSE /\ files' = files \ files_to_remove
                /\ state_file' = save_state(files', cwd)
                /\ last' = Call("remove_files", "", {}, {}, Cardinality(files_to_remove))
        /\ UNCHANGED <<rules, ignore_file, cwd, system, project, added>>

\* ContextManager.clear_context()
ClearContext ==
    /\ files' = {}
    /\ state_file' = save_state(files', cwd)
    /\ last' = Call("clear_context", "", {}, {}, None)
    /\ UNCHANGED <<rules, ignore_file, cwd, system, project, added>>

\* ContextManager.sync_gitignore(): without a .gitignore it returns (0, []);
\* with one it reads the lines and then raises at line 102, before a pattern
\* is added
SyncGitignore ==
    LET gitignore == GitignoreOf(project)
    IN  /\ last' = IF ~gitignore.exists
                   THEN Call("sync_gitignore", "", {}, {}, <<0, <<>>>>)
                   ELSE Outcome("sync_gitignore", "", {}, {}, None, AttributeError)
        /\ UNCHANGED <<rules, ignore_file, cwd, system, project, added, files,
                       state_file>>

Next ==
    \/ Construct
    \/ \E text \in TextPool(project), disk \in DiskPool(project) : AddPattern(text, disk)
    \/ \E text \in TextPool(project), disk \in DiskPool(project) : RemovePattern(text, disk)
    \/ \E disk \in DiskPool(project) : ClearPatterns(disk)
    \/ \E normals \in SUBSET NormalsPool(project),
          negations \in SUBSET NegationsPool(project),
          disk \in DiskPool(project) :
           SetPatterns(normals, negations, disk)
    \/ \E path \in PathPool(project) : ShouldIgnore(path)
    \/ \E patterns \in PatternLists(project), ignore_manager \in BOOLEAN,
          listing \in Listings :
           NormalizePaths(patterns, ignore_manager, listing)
    \/ \E patterns \in PatternLists(project), listing \in Listings :
           AddFiles(patterns, listing)
    \/ SyncGitignore

Spec == Init /\ [][Next]_vars

\* A ContextManager, constructed where no rules file and no state file exist
\* yet, and driven through its own methods only
InitContext == Init /\ ContextTextPool(project) # {}

NextContext ==
    \/ \E patterns \in PatternLists(project), listing \in Listings :
           AddFiles(patterns, listing)
    \/ \E patterns \in PatternLists(project), listing \in Listings :
           RemoveFiles(patterns, listing)
    \/ \E text \in ContextTextPool(project), disk \in DiskPool(project) :
           AddIgnorePattern(text, disk)
    \/ \E text \in ContextTextPool(project), disk \in DiskPool(project) :
           RemoveIgnorePattern(text, disk)
    \/ ClearContext

SpecContext == InitContext /\ [][NextContext]_vars

-----------------------------------------------------------------------------
(* Properties.                                                             *)

\* the call recorded in last returned (did not raise)
Returned(op) == last.op = op /\ last.raised = None

\* the indices of the rules whose compiled matcher matches rel
MatchingRules(rs, rel) == {i \in 1..Len(rs) : regex_search(rs[i].regex, rel)}

\* rel has a matching rule and the last of them in stored order is no negation
LastMatchIgnores(rs, rel) ==
    LET M == MatchingRules(rs, rel)
    IN  M # {} /\ ~rs[CHOOSE i \in M : \A j \in M : j <= i].is_negation

NodeModulesRules ==
    <<"node_modules/", "!node_modules/keep/", "node_modules/keep/*.tmp">>

\* C1: for every rule list and every path inside the root, should_ignore is
\* true exactly when the last rule in stored order whose matcher matches the
\* root-relative path is not a negation (false when it is one or when no rule
\* matches); with node_modules/, !node_modules/keep/, node_modules/keep/*.tmp
\* in that order drop/y.js is ignored, keep/x.js is not, keep/tmp.tmp is.
C1_LastMatchWins ==
    /\ \A path \in PathPool(project) :
        LET rel == RelPathTable[cwd][path]
        IN  rel # ValueError =>
                /\ should_ignore_raised(rules, cwd, path) = None
                /\ should_ignore(rules, cwd, path) = LastMatchIgnores(rules, rel)
    /\ (last.op = "should_ignore" /\ RelPathTable[cwd][last.text] # ValueError) =>
            /\ last.raised = None
            /\ last.ret = LastMatchIgnores(rules, RelPathTable[cwd][last.text])
    /\ list_patterns(rules) = NodeModulesRules =>
            /\ should_ignore(rules, cwd, "/w/node_modules/drop/y.js")
            /\ ~should_ignore(rules, cwd, "/w/node_modules/keep/x.js")
            /\ should_ignore(rules, cwd, "/w/node_modules/keep/tmp.tmp")

\* the three rules were added in order and keep/tmp.tmp was asked about
C1_Witness ==
    /\ added = Tracked(NodeModulesRules)
    /\ Returned("should_ignore")
    /\ last.text = "/w/node_modules/keep/tmp.tmp"
    /\ last.ret = TRUE
    /\ Cardinality(MatchingRules(rules, "node_modules/keep/tmp.tmp")) = 3

\* C2: starting from an empty list, for a pattern P matching path x,
\* add_pattern("!P") then add_pattern("P") makes should_ignore(x) true, and
\* add_pattern("P") then add_pattern("!P") makes it false.
C2_OrderSensitivity ==
    \A P \in TextPool(project), x \in PathPool(project) :
        LET body == Strip(P)
            rel  == RelPathTable[cwd][x]
        IN  ( /\ body # ""
              /\ ~is_neg_of(body)
              /\ rel # ValueError
              /\ regex_search(RegexTable[system][body], rel) ) =>
                /\ added = Tracked(<<"!" \o P, P>>) => should_ignore(rules, cwd, x)
                /\ added = Tracked(<<P, "!" \o P>>) => ~should_ignore(rules, cwd, x)

\* !build/ then build/ were added to an empty list and build/out.txt is ignored
C2_Witness ==
    /\ added = Tracked(<<"!build/", "build/">>)
    /\ Returned("should_ignore")
    /\ last.text = "/w/build/out.txt"
    /\ last.ret = TRUE

\* C3: with the single rule a/**/b, should_ignore is true for a/b (zero
\* segments between a and b) and for a/x/y/b (two segments between).
C3_GlobstarZeroOrMore ==
    list_patterns(rules) = <<"a/**/b">> =>
        /\ should_ignore(rules, cwd, "/w/a/b")
        /\ should_ignore(rules, cwd, "/w/a/x/y/b")

\* the single rule a/**/b is stored and should_ignore(a/b) returned false
C3_Witness ==
    /\ list_patterns(rules) = <<"a/**/b">>
    /\ Returned("should_ignore")
    /\ last.text = "/w/a/b"
    /\ last.ret = FALSE

\* C4: with the single rule build, should_ignore is true for x/build/out.txt
\* and x/build/y/out.txt (a whole segment is build) and false for
\* rebuild/out.txt (build is only part of a segment).
C4_SegmentBoundary ==
    list_patterns(rules) = <<"build">> =>
        /\ should_ignore(rules, cwd, "/w/x/build/out.txt")
        /\ should_ignore(rules, cwd, "/w/x/build/y/out.txt")
        /\ ~should_ignore(rules, cwd, "/w/rebuild/out.txt")

\* the single rule build is stored and should_ignore(x/build/out.txt) returned false
C4_Witness ==
    /\ list_patterns(rules) = <<"build">>
    /\ Returned("should_ignore")
    /\ last.text = "/w/x/build/out.txt"
    /\ last.ret = FALSE

\* the absolute form of path is neither the root nor a path below it
OutsideRoot(path, wd) ==
    LET abs == "/" \o Join(resolve(path, wd))
    IN  abs # base_dir /\ ~StartsWith(abs, base_dir \o "/")

\* C5: for every rule list and every path that cannot be expressed relative
\* to the project root, should_ignore returns false and does not raise.
C5_OutsideRootNotIgnored ==
    /\ \A path \in PathPool(project) :
        OutsideRoot(path, cwd) =>
            /\ should_ignore_raised(rules, cwd, path) = None
            /\ should_ignore(rules, cwd, path) = FALSE
    /\ (last.op = "should_ignore" /\ OutsideRoot(last.text, cwd)) =>
            /\ last.raised = None
            /\ last.ret = FALSE

\* a path of a sibling directory whose name starts like the root's was asked
\* about while a rule that matches its tail is stored
C5_Witness ==
    /\ list_patterns(rules) = <<"build/">>
    /\ Returned("should_ignore")
    /\ last.text = "/w2/build/out.txt"
    /\ OutsideRoot(last.text, cwd)
    /\ last.ret = FALSE

\* how many stored rules have the pair (raw, is_neg)
CountRule(rs, raw, is_neg) ==
    Cardinality({i \in 1..Len(rs) : rs[i].raw = raw /\ rs[i].is_negation = is_neg})

\* C6: calling add_pattern with the same pattern text twice leaves exactly
\* one stored rule with that (raw pattern, negation) pair, and the second
\* call leaves the rule list unchanged.  (The second call changing nothing,
\* exactly one such rule is stored after every add_pattern call.)
C6_IdempotentAdd ==
    [][ (last'.op = "add_pattern" /\ Strip(last'.text) # "") =>
            LET pattern == Strip(last'.text)
            IN  /\ CountRule(rules', raw_of(pattern), is_neg_of(pattern)) = 1
                /\ (last.op = "add_pattern" /\ last.text = last'.text) =>
                        rules' = rules ]_vars

\* add_pattern(build/) returned and two rules (build/, not negated) are stored
C6_Witness ==
    /\ Returned("add_pattern")
    /\ last.text = "build/"
    /\ CountRule(rules, "build/", FALSE) = 2

\* C7: in every state reachable by loading a rules file at construction and
\* then any sequence of add_pattern, remove_pattern, set_patterns and
\* clear_patterns, no two stored rules have the same (raw pattern, negation).
C7_NoDuplicateRules ==
    \A i, j \in 1..Len(rules) :
        (rules[i].raw = rules[j].raw /\ rules[i].is_negation = rules[j].is_negation)
            => i = j

\* set_patterns was given two texts that differ only in surrounding
\* whitespace and stored, and saved, the same rule twice
C7_Witness ==
    /\ Returned("set_patterns")
    /\ last.normals = {"build/", " build/"}
    /\ last.negations = {}
    /\ list_patterns(rules) = <<"build/", "build/">>
    /\ ignore_file = File(<<"build/", "build/">>)

\* each text of a sequence prefixed with '!'
Bang(texts) == [i \in 1..Len(texts) |-> "!" \o texts[i]]

\* each text of a sequence with surrounding whitespace removed
Trimmed(texts) == [i \in 1..Len(texts) |-> Strip(texts[i])]

\* the non-blank members of a set of texts
NonBlank(S) == {p \in S : Strip(p) # ""}

C9_AddAppendsLast ==
    [][ /\ (last'.op = "add_pattern" /\ Strip(last'.text) # ""
            /\ ~has_rule(rules, raw_of(Strip(last'.text)), is_neg_of(Strip(last'.text))))
            => /\ Len(rules') = Len(rules) + 1
               /\ SubSeq(rules', 1, Len(rules)) = rules
               /\ rules'[Len(rules')].raw = raw_of(Strip(last'.text))
               /\ rules'[Len(rules')].is_negation = is_neg_of(Strip(last'.text))
               /\ list_patterns(rules') =
                      Append(list_patterns(rules), Strip(last'.text))
        /\ added'.tracked =>
               /\ list_patterns(rules') = Trimmed(added'.texts)
               /\ (\A i \in 1..Len(added'.texts) :
                       Strip(added'.texts[i]) = added'.texts[i])
                   => list_patterns(rules') = added'.texts ]_vars

\* three distinct patterns were added to an empty list, the last one just now
C9_Witness ==
    /\ Returned("add_pattern")
    /\ last.text = "node_modules/keep/*.tmp"
    /\ added = Tracked(NodeModulesRules)
    /\ list_patterns(rules) = NodeModulesRules

\* rs without the first rule that has the pair (raw, is_neg)
RemoveFirst(rs, raw, is_neg) ==
    LET M == {i \in 1..Len(rs) : rs[i].raw = raw /\ rs[i].is_negation = is_neg}
        k == CHOOSE i \in M : \A j \in M : i <= j
    IN  SubSeq(rs, 1, k - 1) \o SubSeq(rs, k + 1, Len(rs))

\* C10: remove_pattern(text) removes the one rule whose (raw pattern,
\* negation) equals that of text and returns true; when there is none it
\* returns false and leaves the list unchanged; every other rule stays
\* stored and keeps its relative order.
C10_RemoveOneRule ==
    [][ (last'.op = "remove_pattern" /\ last'.raised = None) =>
            LET pattern == Strip(last'.text)
                raw     == raw_of(pattern)
                neg     == is_neg_of(pattern)
            IN  IF pattern # "" /\ has_rule(rules, raw, neg)
                THEN last'.ret = TRUE /\ rules' = RemoveFirst(rules, raw, neg)
                ELSE last'.ret = FALSE /\ rules' = rules ]_vars

\* remove_pattern(build/) returned true and the list, which held build/
\* twice, is empty afterwards
C10_Witness ==
    /\ Returned("remove_pattern")
    /\ last.text = "build/"
    /\ last.ret = TRUE
    /\ rules = <<>>
    /\ ignore_file = File(<<>>)

\* the operations that change the rule list
Mutators == {"add_pattern", "remove_pattern", "set_patterns", "clear_patterns"}

\* C11: after any add_pattern, remove_pattern, set_patterns or clear_patterns
\* call that changed the rule list and returned normally, the rules file
\* exists and holds exactly the in-memory rules, one per line, in in-memory
\* order, a negated rule as '!' followed by its pattern (its line sequence
\* equals list_patterns()).
C11_PersistAfterMutation ==
    [][ (last'.op \in Mutators /\ last'.raised = None /\ rules' # rules) =>
            /\ ignore_file'.exists
            /\ Len(ignore_file'.lines) = Len(rules')
            /\ \A i \in 1..Len(rules') :
                   ignore_file'.lines[i] =
                       IF rules'[i].is_negation
                       THEN "!" \o rules'[i].raw
                       ELSE rules'[i].raw
            /\ ignore_file'.lines = list_patterns(rules') ]_vars

\* remove_pattern(node_modules/) took the first of three rules away and the
\* file holds the two that are left, the negated one with its '!'
C11_Witness ==
    /\ Returned("remove_pattern")
    /\ last.text = "node_modules/"
    /\ last.ret = TRUE
    /\ list_patterns(rules) = <<"!node_modules/keep/", "node_modules/keep/*.tmp">>
    /\ ignore_file = File(<<"!node_modules/keep/", "node_modules/keep/*.tmp">>)

\* the lines of a file that are neither blank nor start with '#'
RuleLines(lines) ==
    SelectSeq(lines, LAMBDA l : Strip(l) # "" /\ ~StartsWith(l, "#"))

\* rs is one rule per line of kept, in order: a line starting with '!' as a
\* negated rule whose body is the rest of the line, any other line as a
\* non-negated rule whose body is the line
OneRulePerLine(rs, kept) ==
    /\ Len(rs) = Len(kept)
    /\ \A i \in 1..Len(kept) :
           /\ rs[i].is_negation = StartsWith(kept[i], "!")
           /\ rs[i].raw = IF StartsWith(kept[i], "!") THEN Tail(kept[i]) ELSE kept[i]

\* C12 as stated: loading a rules file yields one rule per line that is
\* neither blank nor starts with '#', in file order; a line starting with '!'
\* becomes a negated rule whose body is the rest of the line, every other line
\* a non-negated rule whose body is the line.
C12_LoadOneRulePerLine ==
    (last.op = "__init__" /\ ignore_file.exists) =>
        OneRulePerLine(rules, RuleLines(ignore_file.lines))

\* C12 (amended): loading a rules file first trims every line of surrounding
\* whitespace and then yields one rule per trimmed line that is neither empty
\* nor starts with '#', in file order; a trimmed line starting with '!'
\* becomes a negated rule whose body is the rest of the trimmed line, every
\* other one a non-negated rule whose body is the trimmed line.  Without a
\* rules file the load yields no rule.
C12_LoadOneRulePerTrimmedLine ==
    last.op = "__init__" =>
        IF ignore_file.exists
        THEN OneRulePerLine(rules, RuleLines(Trimmed(ignore_file.lines)))
        ELSE rules = <<>>

\* a manager was constructed on a file with a comment, a blank line, a plain
\* rule and a negated rule
C12_Witness ==
    /\ Returned("__init__")
    /\ ignore_file = File(<<"# rules", "build/", "", "!build/">>)
    /\ Len(rules) = 2
    /\ rules[1].raw = "build/" /\ ~rules[1].is_negation
    /\ rules[2].raw = "build/" /\ rules[2].is_negation

\* text is empty once whitespace is trimmed and the leading '!' is stripped
EmptyInput(text) == Strip(raw_of(Strip(text))) = ""

\* C13: add_pattern on empty input is a no-op: when the text is empty once
\* whitespace is trimmed and the leading '!' negation marker is stripped, no
\* rule is added and the rule list is unchanged.
C13_AddEmptyIsNoOp ==
    [][ (last'.op = "add_pattern" /\ EmptyInput(last'.text)) =>
            /\ Len(rules') = Len(rules)
            /\ rules' = rules ]_vars

\* add_pattern("!") was called on an empty list and left a negated rule with
\* an empty pattern, which is also what the file holds
C13_Witness ==
    /\ Returned("add_pattern")
    /\ last.text = "!"
    /\ Len(rules) = 1
    /\ rules[1].raw = "" /\ rules[1].is_negation
    /\ ignore_file = File(<<"!">>)

\* C14: clear_patterns empties the rule list and persists it: when it has
\* returned list_patterns() is empty and the rules file exists and contains
\* no rule, and while the list is empty should_ignore returns false for every
\* path (and does not raise).
C14_ClearEmptiesAndPersists ==
    /\ Returned("clear_patterns") =>
            /\ list_patterns(rules) = <<>>
            /\ ignore_file.exists
            /\ RuleLines(Trimmed(ignore_file.lines)) = <<>>
    /\ list_patterns(rules) = <<>> =>
            \A path \in PathPool(project) :
                /\ should_ignore_raised(rules, cwd, path) = None
                /\ should_ignore(rules, cwd, path) = FALSE
    /\ (last.op = "should_ignore" /\ list_patterns(rules) = <<>>) =>
            /\ last.raised = None
            /\ last.ret = FALSE

\* clear_patterns returned in the node_modules project, where every rules
\* file found at construction holds rules: the list is empty and the file,
\* written by the call, is empty
C14_Witness ==
    /\ project = "node_modules"
    /\ Returned("clear_patterns")
    /\ rules = <<>>
    /\ ignore_file = File(<<>>)

\* C15: should_ignore is a pure query: a call leaves the rule list and the
\* rules file unchanged, and a call with the same path as the call before it
\* (the rule state being the same) has the same outcome.
C15_ShouldIgnoreIsPure ==
    [][ last'.op = "should_ignore" =>
            /\ rules' = rules
            /\ ignore_file' = ignore_file
            /\ (last.op = "should_ignore" /\ last.text = last'.text) =>
                    /\ last'.raised = last.raised
                    /\ last'.raised = None => last'.ret = last.ret ]_vars

\* should_ignore answered true from the one rule in memory while the rules
\* file, whose write had failed, does not exist
C15_Witness ==
    /\ Returned("should_ignore")
    /\ last.text = "/w/logs/a.log"
    /\ last.ret = TRUE
    /\ list_patterns(rules) = <<"logs/">>
    /\ ignore_file = NoFile

\* C16: in every state reachable by construction/load and any sequence of
\* add_pattern, remove_pattern, set_patterns and clear_patterns, each stored
\* rule carries a compiled matcher, which is the compilation of its current
\* raw pattern, so the assertion of should_ignore that a rule's regex is
\* present never fails.
C16_MatchersNeverStale ==
    /\ \A i \in 1..Len(rules) :
            /\ rules[i].regex # NoRegex
            /\ rules[i].regex = RegexTable[system][rules[i].raw]
    /\ \A path \in PathPool(project) :
            should_ignore_raised(rules, cwd, path) # "AssertionError"
    /\ last.op = "should_ignore" => last.raised # "AssertionError"

\* three rules were added one after the other and should_ignore answered
C16_Witness ==
    /\ added = Tracked(<<"build/", "!build/", "build">>)
    /\ Returned("should_ignore")
    /\ last.text = "/w/build/out.txt"
    /\ \A i \in 1..3 : rules[i].regex = RegexTable[system][rules[i].raw]

\* the rule list a call of a mutating operation is to leave, given the list
\* rs it found: the call is described by the record it leaves in `last`
MutatedRules(rs, call, sys) ==
    LET pattern == Strip(call.text)
    IN  CASE call.op = "add_pattern" ->
                IF pattern = "" THEN rs ELSE add_rules(rs, pattern, sys)
          [] call.op = "remove_pattern" ->
                IF pattern = "" THEN rs ELSE remove_rules(rs, pattern)
          [] call.op = "set_patterns" -> set_rules(call.normals, call.negations, sys)
          [] call.op = "clear_patterns" -> <<>>

\* C17: if writing the rules file fails during add_pattern, remove_pattern,
\* set_patterns or clear_patterns, the in-memory rule list holds the mutated
\* rules (nothing is rolled back), every rule is compiled, and should_ignore
\* answers every path according to that list.
C17_FailedPersistKeepsMemory ==
    [][ (last'.op \in Mutators /\ last'.raised = "OSError") =>
            /\ rules' = MutatedRules(rules, last', system)
            /\ \A i \in 1..Len(rules') :
                   rules'[i].regex = RegexTable[system][rules'[i].raw]
            /\ \A path \in PathPool(project) :
                   LET rel == RelPathTable[cwd][path]
                   IN  /\ should_ignore_raised(rules', cwd, path) = None
                       /\ should_ignore(rules', cwd, path) =
                              (rel # ValueError /\ LastMatchIgnores(rules', rel)) ]_vars

\* add_pattern(!logs/keep.log) raised OSError after one line was written:
\* memory holds both rules, the file only the first
C17_Witness ==
    /\ last.op = "add_pattern"
    /\ last.text = "!logs/keep.log"
    /\ last.raised = "OSError"
    /\ list_patterns(rules) = <<"logs/", "!logs/keep.log">>
    /\ ignore_file = File(<<"logs/">>)
    /\ ~should_ignore(rules, cwd, "/w/logs/keep.log")

\* C18: no pattern text makes compilation fail: whatever text add_pattern or
\* a rules file supplies, its pattern compiles, so no rule is ever left
\* never-matching or uncompiled, neither construction nor add_pattern,
\* remove_pattern, set_patterns or should_ignore raises because of a pattern,
\* and every rule takes part in the evaluation of every path.
C18_CompilationNeverFails ==
    /\ \A text \in TextPool(project) :
            RegexTable[system][raw_of(Strip(text))] # ReError
    /\ \A i \in 1..Len(rules) :
            /\ rules[i].regex # ReError
            /\ rules[i].regex # NoRegex
    /\ compile_raised(rules, system) = None
    /\ last.raised \notin {"re.error", "AssertionError"}
    /\ \A path \in PathPool(project) :
            LET rel == RelPathTable[cwd][path]
            IN  /\ should_ignore_raised(rules, cwd, path) = None
                /\ rel # ValueError =>
                        should_ignore(rules, cwd, path) = LastMatchIgnores(rules, rel)

\* three patterns full of characters that mean something to re were added and
\* should_ignore found the path that the second spells out, which the third
\* matches as well
C18_Witness ==
    /\ added = Tracked(<<"[x", "a+(b|c)\\{1}$", "***/?*">>)
    /\ Returned("should_ignore")
    /\ last.text = "/w/a+(b|c)/{1}$"
    /\ last.ret = TRUE
    /\ MatchingRules(rules, "a+(b|c)/{1}$") = {2, 3}
    /\ MatchingRules(rules, "[x") = {1}

\* C19: normalize_paths returns every resolved path at most once: patterns
\* that denote the same file (file.py, ./file.py and its absolute path)
\* contribute a single entry to the result.
C19_NormalizeReturnsEachPathOnce ==
    Returned("normalize_paths") =>
        \A i, j \in 1..Len(last.ret) : last.ret[i] = last.ret[j] => i = j

\* normalize_paths(["file.py", "./file.py", "/w/file.py"]) returned the one
\* file three times
C19_Witness ==
    /\ Returned("normalize_paths")
    /\ last.text = "None"
    /\ last.ret = <<"/w/file.py", "/w/file.py", "/w/file.py">>

\* C20: add_files respects the ignore rules: no path for which should_ignore
\* is true under the current rules is added to the context by a call, whether
\* it was named directly, produced by glob expansion or found under a named
\* directory; and normalize_paths given an ignore manager returns no path for
\* which should_ignore is true.
C20_AddFilesRespectsIgnore ==
    [][ /\ last'.op = "add_files" =>
               /\ rules' = rules
               /\ \A p \in files' \ files : ~should_ignore(rules', cwd', p)
        /\ (last'.op = "normalize_paths" /\ last'.text = "ignore_manager") =>
               \A i \in 1..Len(last'.ret) :
                   ~should_ignore(rules', cwd', last'.ret[i]) ]_vars

\* with the rule exclude.py stored, add_files has put src/main.py and file.py
\* into the context and left src/exclude.py, which lies beside main.py, out
C20_Witness ==
    /\ Returned("add_files")
    /\ list_patterns(rules) = <<"exclude.py">>
    /\ last.ret = 2
    /\ files = {"/w/file.py", "/w/src/main.py"}
    /\ should_ignore(rules, cwd, "/w/src/exclude.py")
    /\ state_file = [exists |-> TRUE, files |-> <<"file.py", "src/main.py">>]

\* the strings of a sequence, as a set
Elements(q) == {q[i] : i \in 1..Len(q)}

\* C21: sync_gitignore, when a .gitignore exists, adds to the ignore rules
\* every non-blank, non-comment .gitignore line that is not already an ignore
\* pattern, and returns the number of patterns added together with the sorted
\* list of them; when no .gitignore exists it returns (0, []) and changes
\* nothing.
C21_SyncGitignoreAddsNewPatterns ==
    [][ last'.op = "sync_gitignore" =>
            LET gitignore == GitignoreOf(project)
                new == gitignore_patterns(gitignore.lines)
                           \ Elements(list_patterns(rules))
            IN  /\ last'.raised = None
                /\ IF gitignore.exists
                   THEN /\ new \subseteq Elements(list_patterns(rules'))
                        /\ Elements(list_patterns(rules')) =
                               Elements(list_patterns(rules)) \cup new
                        /\ last'.ret = <<Cardinality(new), sorted(new)>>
                   ELSE /\ last'.ret = <<0, <<>>>>
                        /\ rules' = rules
                        /\ ignore_file' = ignore_file ]_vars

\* sync_gitignore was called where a .gitignore with two patterns exists: it
\* raised AttributeError and no rule was added
C21_Witness ==
    /\ last.op = "sync_gitignore"
    /\ last.raised = AttributeError
    /\ GitignoreOf(project).exists
    /\ gitignore_patterns(GitignoreOf(project).lines) = {"*.pyc", "build/"}
    /\ rules = <<>>

\* the positions of rel at which a segment starts
SegmentStarts(rel) == {k \in 1..Len(rel) : k = 1 \/ Char(rel, k - 1) = "/"}

\* the compiled matcher can match rel from the position start on
MatchesAt(regex, rel, start) ==
    MatchFrom(regex.pattern, 1, rel, start, regex.ignorecase)

\* C22: a rule whose pattern begins with '/' matches only starting at the
\* first character of the root-relative path, never beneath a directory
\* prefix (/build/ matches build/out.txt but not x/build/out.txt), while the
\* same pattern without the leading '/' also matches at any later segment
\* boundary: it matches a path exactly when the anchored pattern matches the
\* path or what is left of it from some later segment on.
C22_Anchoring ==
    /\ \A i \in 1..Len(rules), path \in PathPool(project) :
            LET rel == RelPathTable[cwd][path]
            IN  (StartsWith(rules[i].raw, "/") /\ rel # ValueError) =>
                    /\ \A start \in 2..(Len(rel) + 1) :
                           ~MatchesAt(rules[i].regex, rel, start)
                    /\ regex_search(rules[i].regex, rel) =
                           MatchesAt(rules[i].regex, rel, 1)
    /\ \A text \in TextPool(project), path \in PathPool(project) :
            LET rel == RelPathTable[cwd][path]
            IN  (StartsWith(text, "/") /\ Tail(text) \in TextPool(project)
                 /\ rel # ValueError) =>
                    regex_search(RegexTable[system][Tail(text)], rel) =
                        \E k \in SegmentStarts(rel) :
                            MatchesAt(RegexTable[system][text],
                                      SubSeq(rel, k, Len(rel)), 1)
    /\ list_patterns(rules) = <<"/build/">> =>
            /\ should_ignore(rules, cwd, "/w/build/out.txt")
            /\ ~should_ignore(rules, cwd, "/w/x/build/out.txt")
    /\ list_patterns(rules) = <<"build/">> =>
            /\ should_ignore(rules, cwd, "/w/build/out.txt")
            /\ should_ignore(rules, cwd, "/w/x/build/out.txt")

\* with the single rule /build/ stored, should_ignore(x/build/out.txt)
\* returned false while build/out.txt is ignored
C22_Witness ==
    /\ list_patterns(rules) = <<"/build/">>
    /\ Returned("should_ignore")
    /\ last.text = "/w/x/build/out.txt"
    /\ last.ret = FALSE
    /\ should_ignore(rules, cwd, "/w/build/out.txt")

\* the last segment of a root-relative path
FinalSegment(rel) == LET segs == SplitSlash(rel) IN segs[Len(segs)]

\* C23: a rule whose original pattern ended with '/' matches a candidate
\* only when the matched name is a directory: it matches paths lying beneath
\* a directory of that name, and it does not cause a regular file whose own
\* final segment equals the pattern name to be ignored.
C23_DirectoryOnlyRules ==
    /\ \A i \in 1..Len(rules), path \in PathPool(project) \cap TreeFiles(project) :
            LET rel  == RelPathTable[cwd][path]
                raw  == rules[i].raw
                name == SubSeq(raw, 1, Len(raw) - 1)
            IN  (EndsWith(raw, "/") /\ rel # ValueError) =>
                    /\ StartsWith(rel, name \o "/") => regex_search(rules[i].regex, rel)
                    /\ FinalSegment(rel) = name => ~regex_search(rules[i].regex, rel)
    /\ list_patterns(rules) = <<"build/">> =>
            /\ should_ignore(rules, cwd, "/w/build/out.txt")
            /\ ~should_ignore(rules, cwd, "/w/docs/build")

\* with the single rule build/ stored, should_ignore returned true for the
\* regular file docs/build
C23_Witness ==
    /\ list_patterns(rules) = <<"build/">>
    /\ "/w/docs/build" \in TreeFiles(project)
    /\ Returned("should_ignore")
    /\ last.text = "/w/docs/build"
    /\ last.ret = TRUE

\* a string with its letters in lower case
RECURSIVE LowerStr(_)
LowerStr(s) == IF Len(s) = 0 THEN s ELSE Lower(Char(s, 1)) \o LowerStr(Tail(s))

\* the hosts whose file systems do not tell letter case apart
IgnoresCase(sys) == sys \in {"Windows", "Darwin"}

\* Does the glob pat, read character by character, match the whole of s?
\* '*' stands for any run of characters other than '/', '?' for one
\* character other than '/', any other character for itself.
RECURSIVE WildMatch(_, _)
WildMatch(pat, s) ==
    IF Len(pat) = 0 THEN Len(s) = 0
    ELSE IF Char(pat, 1) = "*"
         THEN \/ WildMatch(Tail(pat), s)
              \/ Len(s) > 0 /\ Char(s, 1) # "/" /\ WildMatch(pat, Tail(s))
    ELSE IF Char(pat, 1) = "?"
         THEN Len(s) > 0 /\ Char(s, 1) # "/" /\ WildMatch(Tail(pat), Tail(s))
    ELSE Len(s) > 0 /\ Char(s, 1) = Char(pat, 1) /\ WildMatch(Tail(pat), Tail(s))

\* a pattern without '**', without a leading or trailing '/' and without '\'
PlainGlob(raw) ==
    /\ \A k \in 1..Len(raw) : Char(raw, k) # "\\"
    /\ \A k \in 1..(Len(raw) - 1) : SubSeq(raw, k, k + 1) # "**"
    /\ ~StartsWith(raw, "/")
    /\ ~EndsWith(raw, "/")
    /\ Strip(raw) = raw

\* the glob raw matches rel from one of its segment starts to its end, letter
\* case apart when fold is true; tabulated over the pools
WildTable ==
    [raw \in AllRaws |-> [rel \in AllRels |-> [fold \in BOOLEAN |->
        \E k \in SegmentStarts(rel) :
            IF fold
            THEN WildMatch(LowerStr(raw), LowerStr(SubSeq(rel, k, Len(rel))))
            ELSE WildMatch(raw, SubSeq(rel, k, Len(rel)))]]]

\* raw holds a wildcard
HasWildcard(raw) == \E k \in 1..Len(raw) : Char(raw, k) \in {"*", "?"}

\* C24: in a compiled pattern '*' matches any run of characters containing
\* no '/', and '?' matches exactly one character other than '/'; so a/*.py
\* matches a/c.py but not a/b/c.py, and a?c matches abc but neither a/c nor
\* ac.
C24_SingleSegmentWildcards ==
    /\ \A i \in 1..Len(rules), path \in PathPool(project) :
            LET rel == RelPathTable[cwd][path]
                raw == rules[i].raw
            IN  (HasWildcard(raw) /\ PlainGlob(raw) /\ rel # ValueError) =>
                    regex_search(rules[i].regex, rel) =
                        WildTable[raw][rel][IgnoresCase(system)]
    /\ \A i \in 1..Len(rules) :
            /\ rules[i].raw = "a/*.py" =>
                    /\ regex_search(rules[i].regex, "a/c.py")
                    /\ ~regex_search(rules[i].regex, "a/b/c.py")
            /\ rules[i].raw = "a?c" =>
                    /\ regex_search(rules[i].regex, "abc")
                    /\ ~regex_search(rules[i].regex, "a/c")
                    /\ ~regex_search(rules[i].regex, "ac")

\* the rules a/*.py and a?c are stored and should_ignore(a/b/c.py) returned
\* false: neither '*' nor '?' took the '/' of a/b/c.py or of a/c
C24_Witness ==
    /\ list_patterns(rules) = <<"a/*.py", "a?c">>
    /\ Returned("should_ignore")
    /\ last.text = "/w/a/b/c.py"
    /\ last.ret = FALSE
    /\ should_ignore(rules, cwd, "/w/a/c.py")
    /\ should_ignore(rules, cwd, "/w/abc")
    /\ ~should_ignore(rules, cwd, "/w/a/c")
    /\ ~should_ignore(rules, cwd, "/w/ac")

\* a pattern without wildcards and without a leading or trailing '/'
LiteralPattern(raw) ==
    /\ ~HasWildcard(raw)
    /\ ~StartsWith(raw, "/")
    /\ ~EndsWith(raw, "/")
    /\ Strip(raw) = raw

\* rel, from one of its segment starts to its end, is the text of raw (with
\* '/' for '\'), letter case apart when fold is true; tabulated over the pools
LiteralTable ==
    [raw \in AllRaws |-> [rel \in AllRels |-> [fold \in BOOLEAN |->
        \E k \in SegmentStarts(rel) :
            IF fold
            THEN LowerStr(SubSeq(rel, k, Len(rel))) = LowerStr(Replace(raw, "\\", "/"))
            ELSE SubSeq(rel, k, Len(rel)) = Replace(raw, "\\", "/")]]]

\* C25: every character of a pattern other than the wildcards '*' and '?'
\* matches only itself literally: regex metacharacters such as '.', '+', '(',
\* '[' and '|' have no special meaning, so a.c matches a.c but not abc, and
\* text inserted by an earlier wildcard substitution is never rewritten by a
\* later substitution (the compiled text of a/**/b, ***/?* and a/*.py holds
\* each inserted wildcard as it was inserted).
C25_LiteralCharacters ==
    /\ \A i \in 1..Len(rules), path \in PathPool(project) :
            LET rel == RelPathTable[cwd][path]
                raw == rules[i].raw
            IN  (LiteralPattern(raw) /\ rel # ValueError) =>
                    regex_search(rules[i].regex, rel) =
                        LiteralTable[raw][rel][IgnoresCase(system)]
    /\ \A i \in 1..Len(rules) :
            /\ rules[i].raw = "a.c" =>
                    /\ regex_search(rules[i].regex, "a.c")
                    /\ ~regex_search(rules[i].regex, "abc")
            /\ rules[i].raw = "a/**/b" => rules[i].regex.pattern = "(^|/)a/.*?/b$"
            /\ rules[i].raw = "***/?*" =>
                    rules[i].regex.pattern = "(^|/)[^/]*.*?/[^/][^/]*$"
            /\ rules[i].raw = "a/*.py" =>
                    rules[i].regex.pattern = "(^|/)a/[^/]*\\.py$"

\* with the single rule a.c stored, should_ignore(abc) returned false while
\* a.c is ignored
C25_Witness ==
    /\ list_patterns(rules) = <<"a.c">>
    /\ Returned("should_ignore")
    /\ last.text = "/w/abc"
    /\ last.ret = FALSE
    /\ should_ignore(rules, cwd, "/w/a.c")

\* the compiled text of raw, matched with regard to letter case
ExactTable ==
    [raw \in AllRaws |-> [rel \in AllRels |->
        Search([pattern |-> RegexTable["Linux"][raw].pattern, ignorecase |-> FALSE],
               rel)]]

\* the compiled text of raw in lower case, matched with regard to letter case
\* against rel in lower case: raw and rel match letter case apart
FoldTable ==
    [raw \in AllRaws |-> [rel \in AllRels |->
        Search([pattern |-> pattern_to_regex(LowerStr(raw), "Linux").pattern,
                ignorecase |-> FALSE],
               LowerStr(rel))]]

\* C26: case sensitivity follows the platform: on Windows and macOS a rule
\* matches paths that differ from the pattern only in letter case, and on
\* every other platform it does not.
C26_CaseFollowsPlatform ==
    /\ \A i \in 1..Len(rules), path \in PathPool(project) :
            LET rel == RelPathTable[cwd][path]
                raw == rules[i].raw
            IN  rel # ValueError =>
                    /\ rules[i].regex.ignorecase = IgnoresCase(system)
                    /\ regex_search(rules[i].regex, rel) =
                           IF IgnoresCase(system)
                           THEN FoldTable[raw][rel]
                           ELSE ExactTable[raw][rel]
    /\ \A i \in 1..Len(rules) :
            /\ rules[i].raw = "*.bak" =>
                    /\ regex_search(rules[i].regex, "x.bak")
                    /\ regex_search(rules[i].regex, "x.BAK") = IgnoresCase(system)
            /\ rules[i].raw = "ABK/" =>
                    regex_search(rules[i].regex, "abk/f") = IgnoresCase(system)

\* on Windows, with the single rule ABK/ stored, should_ignore(abk/f)
\* returned true
C26_Witness ==
    /\ system = "Windows"
    /\ list_patterns(rules) = <<"ABK/">>
    /\ Returned("should_ignore")
    /\ last.text = "/w/abk/f"
    /\ last.ret = TRUE
    /\ ~should_ignore(<<[rules[1] EXCEPT !.regex = RegexTable["Linux"]["ABK/"]]>>,
                      cwd, "/w/abk/f")

\* the path strings of the pool that are relative
RelativePaths(proj) == {r \in PathPool(proj) : ~StartsWith(r, "/")}

\* C27: should_ignore accepts a root-relative path as well as an absolute
\* one: for every root-relative path string r and every current working
\* directory of the process, should_ignore(r) returns the same result as
\* should_ignore of the absolute path base_dir/r.
C27_RootRelativePaths ==
    /\ \A r \in RelativePaths(project) :
            /\ should_ignore_raised(rules, cwd, r) = None
            /\ should_ignore(rules, cwd, r) =
                   should_ignore(rules, cwd, base_dir \o "/" \o r)
    /\ (Returned("should_ignore") /\ last.text \in RelativePaths(project)) =>
            last.ret = should_ignore(rules, cwd, base_dir \o "/" \o last.text)

\* in a process whose working directory is not the root, with the single
\* rule build/ stored, should_ignore("build/out.txt") returned false while
\* the absolute path of that file is ignored
C27_Witness ==
    /\ cwd # base_dir
    /\ list_patterns(rules) = <<"build/">>
    /\ Returned("should_ignore")
    /\ last.text = "build/out.txt"
    /\ last.ret = FALSE
    /\ should_ignore(rules, cwd, "/w/build/out.txt")

\* C28: save/load round trip: for every rule list reachable through
\* add_pattern, remove_pattern, set_patterns and clear_patterns, constructing
\* a new IgnoreManager on the same base directory after the last save yields
\* the same list_patterns(), in the same order and with the same negation
\* flags.
C28_SaveLoadRoundTrip ==
    (last.op \in Mutators /\ last.raised = None /\ ignore_file = save_patterns(rules)) =>
        LET loaded == load_patterns(ignore_file, system)
        IN  /\ list_patterns(loaded) = list_patterns(rules)
            /\ Len(loaded) = Len(rules)
            /\ \A i \in 1..Len(rules) :
                   /\ loaded[i].is_negation = rules[i].is_negation
                   /\ loaded[i].raw = rules[i].raw

\* a manager was constructed on the file that add_pattern("#tmp") had saved:
\* the file holds the line #tmp and the new manager holds no rule
C28_Witness ==
    /\ Returned("__init__")
    /\ ignore_file = File(<<"#tmp">>)
    /\ ignore_file = save_patterns(<<Rule("#tmp", FALSE)>>)
    /\ rules = <<>>

\* some pattern of the set S, compiled as set_patterns compiles it, matches rel
SomeMatches(S, rel) == \E p \in S : regex_search(RegexTable[system][Strip(p)], rel)

\* C29: after set_patterns(N, G) negations always override normal rules: for
\* every path inside the root, should_ignore is true exactly when at least
\* one pattern of N matches the path and no pattern of G matches it,
\* independently of the order the rules had before the call.
C29_NegationsOverrideAfterSet ==
    Returned("set_patterns") =>
        \A path \in PathPool(project) :
            LET rel == RelPathTable[cwd][path]
            IN  rel # ValueError =>
                    /\ should_ignore_raised(rules, cwd, path) = None
                    /\ should_ignore(rules, cwd, path) =
                           (SomeMatches(last.normals, rel)
                            /\ ~SomeMatches(last.negations, rel))

\* set_patterns({"logs/"}, {"logs/keep.log"}) returned: logs/a.log is ignored
\* and logs/keep.log, which both patterns match, is not
C29_Witness ==
    /\ Returned("set_patterns")
    /\ last.normals = {"logs/"}
    /\ last.negations = {"logs/keep.log"}
    /\ should_ignore(rules, cwd, "/w/logs/a.log")
    /\ ~should_ignore(rules, cwd, "/w/logs/keep.log")
    /\ SomeMatches(last.normals, "logs/keep.log")
    /\ SomeMatches(last.negations, "logs/keep.log")

\* C30: the context never holds an ignored file: after any sequence of
\* add_files, remove_files, add_ignore_pattern, remove_ignore_pattern and
\* clear_context starting from an empty context, every path in
\* ContextManager.files has should_ignore false under the current rule list.
C30_ContextHoldsNoIgnoredFile ==
    \A f \in files : ~should_ignore(rules, cwd, f)

\* remove_ignore_pattern("!exclude.py") returned true and left the rule
\* exclude.py alone, under which src/exclude.py, still in the context, is
\* ignored
C30_Witness ==
    /\ Returned("remove_ignore_pattern")
    /\ last.text = "!exclude.py"
    /\ last.ret = TRUE
    /\ list_patterns(rules) = <<"exclude.py">>
    /\ "/w/src/exclude.py" \in files
    /\ should_ignore(rules, cwd, "/w/src/exclude.py")

====
